---- MODULE Spec2Model ----
(***************************************************************************)
(* Model of app.py: the POST /api/generate handler (generate_content), its *)
(* two external-call wrappers (upload_and_enhance_image and                *)
(* generate_product_description) and the reply parser that lives inside    *)
(* generate_product_description.                                           *)
(*                                                                         *)
(* Text is modelled character by character: a Python str is the sequence   *)
(* of its code points (ord of each character), so that split / replace /   *)
(* strip / "in" are computed the way CPython computes them on any text.    *)
(* Fixed strings that are never parsed (error messages, URLs, field names) *)
(* are plain strings.  Optional values (None or a value) are sequences of  *)
(* length 0 or 1.                                                          *)
(***************************************************************************)
EXTENDS Integers, Sequences, FiniteSets

VARIABLES
    \* ---- one run of generate_product_description, statement by statement
    p_pc,               \* position inside generate_product_description / caller
    p_response,         \* outcome of model.generate_content(prompt)
    full_text,          \* response.text.strip()
    parts,              \* full_text.split('---')
    p_i,                \* index of the segment the for-loop is at
    description_text,
    social_post_text,
    hashtags_list,
    p_generated,        \* return value of generate_product_description
    p_reply,            \* what generate_content returns for this run
    \* ---- concurrent executions of generate_content, one per request
    pc,                 \* position of each request in generate_content
    files,              \* request.files (set of field names) of each request
    form,               \* request.form (set of field names) of each request
    frames,             \* local variables of each invocation (handler and parser)
    enh_calls,          \* cloudinary.uploader.upload calls started per request
    gen_calls,          \* model.generate_content calls started per request
    enh_out,            \* what the enhancement service answered to each request
    gen_prompt,         \* what each request sent to the generation service
    gen_out,            \* what the generation service answered to each request
    reply               \* (body, status) returned to each request

pvars == <<p_pc, p_response, full_text, parts, p_i, description_text,
           social_post_text, hashtags_list, p_generated, p_reply>>
hvars == <<pc, files, form, frames, enh_calls, gen_calls, enh_out, gen_prompt,
           gen_out, reply>>
vars == <<pvars, hvars>>

\* ------------------------------------------------------------------ bounds
MaxChunks == 3
NumRequests == 2

\* ------------------------------------------------------- literal strings
\* '---'
DELIM ==
    <<45, 45, 45>>
\* '**Product Description:**'
MARK_DESC ==
    <<42, 42, 80, 114, 111, 100, 117, 99, 116, 32, 68, 101, 115, 99, 114, 105,
      112, 116, 105, 111, 110, 58, 42, 42>>
\* '**Social Media Post:**'
MARK_SOCIAL ==
    <<42, 42, 83, 111, 99, 105, 97, 108, 32, 77, 101, 100, 105, 97, 32, 80,
      111, 115, 116, 58, 42, 42>>
\* '**Hashtags:**'
MARK_TAGS ==
    <<42, 42, 72, 97, 115, 104, 116, 97, 103, 115, 58, 42, 42>>
\* 'Hashtags:'
PLAIN_TAGS ==
    <<72, 97, 115, 104, 116, 97, 103, 115, 58>>
\* 'Product Description:'
PLAIN_DESC ==
    <<80, 114, 111, 100, 117, 99, 116, 32, 68, 101, 115, 99, 114, 105, 112,
      116, 105, 111, 110, 58>>
\* 'Social Media Post:'
PLAIN_SOCIAL ==
    <<83, 111, 99, 105, 97, 108, 32, 77, 101, 100, 105, 97, 32, 80, 111, 115,
      116, 58>>
\* 'Could not generate a full description.'
DEFAULT_DESC ==
    <<67, 111, 117, 108, 100, 32, 110, 111, 116, 32, 103, 101, 110, 101, 114,
      97, 116, 101, 32, 97, 32, 102, 117, 108, 108, 32, 100, 101, 115, 99,
      114, 105, 112, 116, 105, 111, 110, 46>>
\* 'Could not generate a social media post.'
DEFAULT_SOCIAL ==
    <<67, 111, 117, 108, 100, 32, 110, 111, 116, 32, 103, 101, 110, 101, 114,
      97, 116, 101, 32, 97, 32, 115, 111, 99, 105, 97, 108, 32, 109, 101, 100,
      105, 97, 32, 112, 111, 115, 116, 46>>

None == <<>>
Some(x) == <<x>>

\* ------------------------------------------------------ Python str methods
SetMin(S) == CHOOSE x \in S : \A y \in S : x <= y
SetMax(S) == CHOOSE x \in S : \A y \in S : x >= y
Last(seq) == seq[Len(seq)]

\* The code points str.strip() and str.split() treat as whitespace
\* (str.isspace): U+0009..U+000D, U+001C..U+0020, U+0085, U+00A0, U+1680,
\* U+2000..U+200A, U+2028, U+2029, U+202F, U+205F, U+3000.
WHITESPACE ==
    (9..13) \cup (28..32) \cup {133, 160, 5760} \cup (8192..8202)
        \cup {8232, 8233, 8239, 8287, 12288}

\* str.isspace for one character
IsSpace(c) == c \in WHITESPACE

MatchAt(s, p, i) ==
    /\ i + Len(p) - 1 <= Len(s)
    /\ \A k \in 1..Len(p) : s[i + k - 1] = p[k]

\* p in s
Contains(s, p) == \E i \in 1..(Len(s) - Len(p) + 1) : MatchAt(s, p, i)

\* s.find(p) + 1, 0 when absent
FindFirst(s, p) ==
    LET hits == {i \in 1..(Len(s) - Len(p) + 1) : MatchAt(s, p, i)}
    IN  IF hits = {} THEN 0 ELSE SetMin(hits)

\* s.split(sep): leftmost non-overlapping occurrences, empty pieces kept
RECURSIVE Split(_, _)
Split(s, sep) ==
    LET i == FindFirst(s, sep)
    IN  IF i = 0 THEN <<s>>
        ELSE <<SubSeq(s, 1, i - 1)>> \o Split(SubSeq(s, i + Len(sep), Len(s)), sep)

RECURSIVE Concat(_)
Concat(ss) == IF ss = <<>> THEN <<>> ELSE Head(ss) \o Concat(Tail(ss))

\* s.replace(old, '')
Remove(s, old) == Concat(Split(s, old))

\* s.strip()
Strip(s) ==
    LET keep == {i \in 1..Len(s) : ~IsSpace(s[i])}
    IN  IF keep = {} THEN <<>> ELSE SubSeq(s, SetMin(keep), SetMax(keep))

\* s.split(): runs of whitespace separate the tokens, no empty token
RECURSIVE SplitWS(_)
SplitWS(s) ==
    LET keep == {i \in 1..Len(s) : ~IsSpace(s[i])}
    IN  IF keep = {} THEN <<>>
        ELSE LET b == SetMin(keep)
                 ws == {i \in b..Len(s) : IsSpace(s[i])}
                 e == IF ws = {} THEN Len(s) + 1 ELSE SetMin(ws)
             IN  <<SubSeq(s, b, e - 1)>> \o SplitWS(SubSeq(s, e, Len(s)))


\* ------------------------------------------- generate_product_description
\* The three locals the parser fills in, initialised to the defaults.
Defaults ==
    [description |-> DEFAULT_DESC, social_post |-> DEFAULT_SOCIAL, hashtags |-> <<>>]

\* The outcomes of model.generate_content(prompt): the call raises, the
\* response carries no text, or it carries a text (possibly empty).
Raised == [kind |-> "raise", text |-> <<>>]
NoText == [kind |-> "notext", text |-> <<>>]
Text(t) == [kind |-> "text", text |-> t]

\* (variant: emptiness judged after trimming)
ResponseEmpty_AfterStrip(resp) == resp.kind = "notext" \/ Strip(resp.text) = <<>>

\* (variant: only the missing attribute is noticed)
ResponseEmpty_AttrOnly(resp) == resp.kind = "notext"

\* not hasattr(response, 'text') or not response.text
ResponseEmpty(resp) == resp.kind = "notext" \/ resp.text = <<>>

\* (variant: three independent ifs instead of the if / elif / elif chain)
SegmentStep_Independent(st, part) ==
    LET s1 == IF Contains(part, MARK_DESC)
              THEN [st EXCEPT !.description = Strip(Remove(part, MARK_DESC))] ELSE st
        s2 == IF Contains(part, MARK_SOCIAL)
              THEN [s1 EXCEPT !.social_post = Strip(Remove(part, MARK_SOCIAL))] ELSE s1
    IN  IF Contains(part, MARK_TAGS)
        THEN [s2 EXCEPT !.hashtags = SplitWS(Strip(Remove(part, MARK_TAGS)))] ELSE s2

\* body of the for-loop: the if / elif / elif chain applied to one segment
SegmentStep(st, part) ==
    IF Contains(part, MARK_DESC)
    THEN [st EXCEPT !.description = Strip(Remove(part, MARK_DESC))]
    ELSE IF Contains(part, MARK_SOCIAL)
    THEN [st EXCEPT !.social_post = Strip(Remove(part, MARK_SOCIAL))]
    ELSE IF Contains(part, MARK_TAGS)
    THEN [st EXCEPT !.hashtags = SplitWS(Strip(Remove(part, MARK_TAGS)))]
    ELSE st

\* the whole for-loop over the segments, in order
RECURSIVE SegmentPass(_, _)
SegmentPass(st, ps) ==
    IF ps = <<>> THEN st ELSE SegmentPass(SegmentStep(st, Head(ps)), Tail(ps))

\* (variant: the text after the first occurrence instead of the last)
HashtagFallback_First(text, st) ==
    IF st.hashtags = <<>> /\ Contains(text, PLAIN_TAGS)
    THEN LET hashtag_line == Strip(Split(text, PLAIN_TAGS)[2])
         IN  IF hashtag_line # <<>>
             THEN [st EXCEPT !.hashtags = SplitWS(hashtag_line)]
             ELSE st
    ELSE st

\* (variant: the containment test of "Hashtags:" is dropped)
HashtagFallback_Unguarded(text, st) ==
    IF st.hashtags = <<>>
    THEN LET hashtag_line == Strip(Last(Split(text, PLAIN_TAGS)))
         IN  IF hashtag_line # <<>>
             THEN [st EXCEPT !.hashtags = SplitWS(hashtag_line)]
             ELSE st
    ELSE st

\* if not hashtags_list and "Hashtags:" in full_text: ...
HashtagFallback(text, st) ==
    IF st.hashtags = <<>> /\ Contains(text, PLAIN_TAGS)
    THEN LET hashtag_line == Strip(Last(Split(text, PLAIN_TAGS)))
         IN  IF hashtag_line # <<>>
             THEN [st EXCEPT !.hashtags = SplitWS(hashtag_line)]
             ELSE st
    ELSE st

\* if not description_text and "Product Description:" in full_text: ...
DescriptionFallback(text, st) ==
    IF st.description = <<>> /\ Contains(text, PLAIN_DESC)
    THEN [st EXCEPT !.description =
            IF Contains(text, PLAIN_SOCIAL)
            THEN Strip(Head(Split(Last(Split(text, PLAIN_DESC)), PLAIN_SOCIAL)))
            ELSE Strip(Last(Split(text, PLAIN_DESC)))]
    ELSE st

\* if not social_post_text and "Social Media Post:" in full_text: ...
SocialFallback(text, st) ==
    IF st.social_post = <<>> /\ Contains(text, PLAIN_SOCIAL)
    THEN [st EXCEPT !.social_post =
            IF Contains(text, PLAIN_TAGS)
            THEN Strip(Head(Split(Last(Split(text, PLAIN_SOCIAL)), PLAIN_TAGS)))
            ELSE Strip(Last(Split(text, PLAIN_SOCIAL)))]
    ELSE st

\* lines 58-94 on an already stripped text
ParseReply(text) ==
    SocialFallback(text,
        DescriptionFallback(text,
            HashtagFallback(text,
                SegmentPass(Defaults, Split(text, DELIM)))))

\* the whole function, given what the generation service answers
GenerateProductDescription(resp) ==
    IF resp.kind = "raise" THEN None
    ELSE IF ResponseEmpty(resp) THEN None
    ELSE Some(ParseReply(Strip(resp.text)))


\* ---------------------------------------------- replies the service may give
SP == <<32>>               \* ' '
NL == <<10>>               \* '\n'
TAB == <<9>>               \* '\t'
CR == <<13>>               \* '\r'
IDEOGRAPHIC_SP == <<12288>>  \* U+3000, whitespace to Python
NBSP == <<160>>            \* U+00A0, whitespace to Python
TAG_X == <<35, 120>>       \* '#x'
TAG_Y == <<35, 121>>       \* '#y'
WORD == <<97, 98>>         \* 'ab'
CAFE == <<99, 97, 102, 233>>  \* 'caf' and U+00E9, which is not whitespace
TAB_TAG_Y == TAB \o TAG_Y

\* pieces a reply is assembled from
Chunks == {DELIM, MARK_DESC, MARK_SOCIAL, MARK_TAGS, PLAIN_TAGS, SP, TAB, TAG_X, TAB_TAG_Y, WORD}

\* arbitrary arrangements of at most MaxChunks pieces (the empty text included)
FreeTexts == {Concat(cs) : cs \in UNION {[1..n -> Chunks] : n \in 0..MaxChunks}}

\* section bodies: empty, whitespace only, prose, tags
Bodies == {<<>>, NL, CR \o NL \o WORD \o SP \o CAFE \o CR \o NL,
           SP \o TAG_X \o TAB \o NBSP \o TAG_Y, IDEOGRAPHIC_SP \o TAG_Y \o NL}

\* the reply the prompt asks for: three sections, '---' between them, each
\* introduced by its marker
Sectioned(b1, b2, b3) ==
    MARK_DESC \o b1 \o DELIM \o NL \o MARK_SOCIAL \o b2 \o DELIM \o NL \o MARK_TAGS \o b3

SectionedTexts == {Sectioned(b1, b2, b3) : b1 \in Bodies, b2 \in Bodies, b3 \in Bodies}

Responses == {Raised, NoText} \cup {Text(t) : t \in FreeTexts \cup SectionedTexts}

Unset == [kind |-> "unset", text |-> <<>>]

\* ------------------------------------------------------ generate_content
IMAGE_URL == "https://cdn.example/x.jpg"
OTHER_URL == "https://cdn.example/y.jpg"

ErrorReply(msg, status) == [status |-> status, body |-> [error |-> msg]]

SuccessReply(url, text) ==
    [status |-> 200, body |-> [enhanced_image_url |-> url, generated_text |-> text]]

\* if not generated_text  (a dict with three keys is never falsy)
GenerationFailed(generated_text) == generated_text = None

\* lines 130-138, given a truthy enhanced_image_url
ReplyAfterGeneration(url, generated_text) ==
    IF GenerationFailed(generated_text)
    THEN ErrorReply("Failed to generate content", 500)
    ELSE SuccessReply(url, generated_text[1])

\* ------------------- one run of generate_product_description, step by step
PInit ==
    /\ p_pc = "call"
    /\ p_response = Unset
    /\ full_text = <<>>
    /\ parts = <<>>
    /\ p_i = 1
    /\ description_text = <<>>
    /\ social_post_text = <<>>
    /\ hashtags_list = <<>>
    /\ p_generated = None
    /\ p_reply = None

Locals == [description |-> description_text, social_post |-> social_post_text,
           hashtags |-> hashtags_list]

SetLocals(st) ==
    /\ description_text' = st.description
    /\ social_post_text' = st.social_post
    /\ hashtags_list' = st.hashtags

\* response = model.generate_content(prompt), inside the try
P_Call ==
    /\ p_pc = "call"
    /\ \E resp \in Responses :
        /\ p_response' = resp
        /\ IF resp.kind = "raise"
           THEN p_pc' = "returned" /\ p_generated' = None
           ELSE p_pc' = "check" /\ UNCHANGED p_generated
    /\ UNCHANGED <<full_text, parts, p_i, description_text, social_post_text,
                   hashtags_list, p_reply>>

\* the empty-response test, then full_text = response.text.strip()
P_CheckResponse ==
    /\ p_pc = "check"
    /\ IF ResponseEmpty(p_response)
       THEN p_pc' = "returned" /\ p_generated' = None /\ UNCHANGED full_text
       ELSE p_pc' = "split" /\ full_text' = Strip(p_response.text) /\ UNCHANGED p_generated
    /\ UNCHANGED <<p_response, parts, p_i, description_text, social_post_text,
                   hashtags_list, p_reply>>

\* parts = full_text.split('---') and the three defaults
P_Split ==
    /\ p_pc = "split"
    /\ parts' = Split(full_text, DELIM)
    /\ SetLocals(Defaults)
    /\ p_i' = 1
    /\ p_pc' = "loop"
    /\ UNCHANGED <<p_response, full_text, p_generated, p_reply>>

\* one iteration of "for part in parts"
P_Segment ==
    /\ p_pc = "loop"
    /\ Len(parts) > 0
    /\ p_i <= Len(parts)
    /\ SetLocals(SegmentStep(Locals, parts[p_i]))
    /\ p_i' = p_i + 1
    /\ UNCHANGED <<p_pc, p_response, full_text, parts, p_generated, p_reply>>

\* loop exhausted; the hashtag fallback
P_HashtagFallback ==
    /\ p_pc = "loop"
    /\ p_i > Len(parts)
    /\ SetLocals(HashtagFallback(full_text, Locals))
    /\ p_pc' = "fb_desc"
    /\ UNCHANGED <<p_response, full_text, parts, p_i, p_generated, p_reply>>

P_DescriptionFallback ==
    /\ p_pc = "fb_desc"
    /\ SetLocals(DescriptionFallback(full_text, Locals))
    /\ p_pc' = "fb_social"
    /\ UNCHANGED <<p_response, full_text, parts, p_i, p_generated, p_reply>>

P_SocialFallback ==
    /\ p_pc = "fb_social"
    /\ SetLocals(SocialFallback(full_text, Locals))
    /\ p_pc' = "return"
    /\ UNCHANGED <<p_response, full_text, parts, p_i, p_generated, p_reply>>

\* return {...}
P_Return ==
    /\ p_pc = "return"
    /\ p_generated' = Some(Locals)
    /\ p_pc' = "returned"
    /\ UNCHANGED <<p_response, full_text, parts, p_i, description_text,
                   social_post_text, hashtags_list, p_reply>>

\* back in generate_content, the image already enhanced to IMAGE_URL
P_Respond ==
    /\ p_pc = "returned"
    /\ p_reply' = Some(ReplyAfterGeneration(IMAGE_URL, p_generated))
    /\ p_pc' = "done"
    /\ UNCHANGED <<p_response, full_text, parts, p_i, description_text,
                   social_post_text, hashtags_list, p_generated>>


PNext ==
    \/ (P_Call /\ UNCHANGED hvars)
    \/ (P_CheckResponse /\ UNCHANGED hvars)
    \/ (P_Split /\ UNCHANGED hvars)
    \/ (P_Segment /\ UNCHANGED hvars)
    \/ (P_HashtagFallback /\ UNCHANGED hvars)
    \/ (P_DescriptionFallback /\ UNCHANGED hvars)
    \/ (P_SocialFallback /\ UNCHANGED hvars)
    \/ (P_Return /\ UNCHANGED hvars)
    \/ (P_Respond /\ UNCHANGED hvars)

\* ------------------------------ concurrent executions of generate_content
Requests == 1..NumRequests

\* request.files / request.form as the environment may send them: requests
\* without an 'image' file (no file at all, or a file under another name),
\* with or without the two text fields, and a request with the image and
\* product_name but no keywords
NoFields == [k \in {} |-> ""]
BothFields == [product_name |-> "Lavender Soap", keywords |-> "handmade, organic"]
NameOnly == [product_name |-> "Lavender Soap"]
RequestInputs ==
    {[files |-> fs, form |-> fm] : fs \in {{}, {"photo"}}, fm \in {NoFields, BothFields}}
        \cup {[files |-> {"image"}, form |-> NameOnly]}

\* request.form.get(key, default)
FormGet(f, key, default) == IF key \in DOMAIN f THEN f[key] ELSE default

\* (variant: only an empty request.files counts as missing)
ImageMissing_Empty(fs) == fs = {}

\* if 'image' not in request.files
ImageMissing(fs) == "image" \notin fs

\* what cloudinary.uploader.upload may do: raise, or return a result
UploadRaised == [kind |-> "raise", secure_url |-> ""]
Uploaded(u) == [kind |-> "ok", secure_url |-> u]
UploadOutcomes == {UploadRaised, Uploaded(""), Uploaded(IMAGE_URL), Uploaded(OTHER_URL)}
UploadUnset == [kind |-> "unset", secure_url |-> ""]

\* upload_and_enhance_image: the URL, or None when the upload raised
UploadAndEnhanceImage(out) ==
    IF out.kind = "raise" THEN None ELSE Some(out.secure_url)

\* (variant: None is not recognised as a failure)
EnhancementFailed_EmptyOnly(url) == url = Some("")

\* if not enhanced_image_url
EnhancementFailed(url) == url = None \/ url = Some("")

\* (variant: a failed enhancement is tried again)
AfterEnhancement_Retry(url) == IF EnhancementFailed(url) THEN "enhance" ELSE "generate"

\* where generate_content goes after line 125: out (return) or on to step 2
AfterEnhancement(url) == IF EnhancementFailed(url) THEN "done" ELSE "generate"

\* what the generation service answers to a request of the handler
GoodReply == Text(Sectioned(NL \o WORD \o NL, CR \o NL \o WORD \o SP \o CAFE \o NL, TAB \o TAG_X \o TAB \o TAG_Y))
PlainTagsReply == Text(PLAIN_TAGS \o SP \o TAG_X \o IDEOGRAPHIC_SP \o TAG_Y)
HandlerResponses == {Raised, NoText, Text(<<>>), GoodReply, PlainTagsReply}

\* the prompt of lines 30-49, as far as it varies: the two values embedded
Prompt(product_name, keywords) == [product_name |-> product_name, keywords |-> keywords]
NoPrompt == Prompt("", "")

\* (variant: the locals are module-level globals shared by all invocations)
Frame_Shared(r) == 1

\* each invocation of generate_content, and of the helpers it calls, has its
\* own local variables
Frame(r) == r

\* locals of generate_content, then those of generate_product_description
EmptyFrame ==
    [product_name |-> "", keywords |-> "",
     enhanced_image_url |-> None, generated_text |-> None,
     response |-> Unset, full_text |-> <<>>, parts |-> <<>>, i |-> 1,
     description_text |-> <<>>, social_post_text |-> <<>>, hashtags_list |-> <<>>]

HInit ==
    /\ pc = [r \in Requests |-> "idle"]
    /\ files = [r \in Requests |-> {}]
    /\ form = [r \in Requests |-> NoFields]
    /\ frames = [r \in Requests |-> EmptyFrame]
    /\ enh_calls = [r \in Requests |-> 0]
    /\ gen_calls = [r \in Requests |-> 0]
    /\ enh_out = [r \in Requests |-> UploadUnset]
    /\ gen_prompt = [r \in Requests |-> NoPrompt]
    /\ gen_out = [r \in Requests |-> Unset]
    /\ reply = [r \in Requests |-> None]

Init == PInit /\ HInit

Goto(r, label) == pc' = [pc EXCEPT ![r] = label]

\* the three parser locals of request r
FrameLocals(r) ==
    [description |-> frames[Frame(r)].description_text,
     social_post |-> frames[Frame(r)].social_post_text,
     hashtags |-> frames[Frame(r)].hashtags_list]

SetFrameLocals(r, st) ==
    frames' = [frames EXCEPT ![Frame(r)].description_text = st.description,
                             ![Frame(r)].social_post_text = st.social_post,
                             ![Frame(r)].hashtags_list = st.hashtags]

\* a POST /api/generate arrives and is routed to generate_content
Receive(r) ==
    /\ pc[r] = "idle"
    /\ \E inp \in RequestInputs :
        /\ files' = [files EXCEPT ![r] = inp.files]
        /\ form' = [form EXCEPT ![r] = inp.form]
    /\ Goto(r, "start")
    /\ UNCHANGED <<frames, enh_calls, gen_calls, enh_out, gen_prompt, gen_out, reply>>

\* the image test, then the two form.get calls
CheckImage(r) ==
    /\ pc[r] = "start"
    /\ IF ImageMissing(files[r])
       THEN /\ reply' = [reply EXCEPT ![r] = Some(ErrorReply("No image file provided", 400))]
            /\ Goto(r, "done")
            /\ UNCHANGED frames
       ELSE /\ frames' = [frames EXCEPT
                 ![Frame(r)].product_name = FormGet(form[r], "product_name", "Handmade Product"),
                 ![Frame(r)].keywords = FormGet(form[r], "keywords", "unique, eco-friendly, made with love")]
            /\ Goto(r, "enhance")
            /\ UNCHANGED reply
    /\ UNCHANGED <<files, form, enh_calls, gen_calls, enh_out, gen_prompt, gen_out>>

\* upload_and_enhance_image is entered and cloudinary.uploader.upload is
\* called; the request now waits for the service
EnhanceCall(r) ==
    /\ pc[r] = "enhance"
    /\ enh_calls' = [enh_calls EXCEPT ![r] = @ + 1]
    /\ Goto(r, "in_upload")
    /\ UNCHANGED <<files, form, frames, gen_calls, enh_out, gen_prompt, gen_out, reply>>

\* the upload returns or raises; enhanced_image_url is bound
EnhanceReturn(r) ==
    /\ pc[r] = "in_upload"
    /\ \E out \in UploadOutcomes :
        /\ enh_out' = [enh_out EXCEPT ![r] = out]
        /\ frames' = [frames EXCEPT ![Frame(r)].enhanced_image_url = UploadAndEnhanceImage(out)]
    /\ Goto(r, "check_url")
    /\ UNCHANGED <<files, form, enh_calls, gen_calls, gen_prompt, gen_out, reply>>

\* if not enhanced_image_url: return 500
CheckEnhanced(r) ==
    /\ pc[r] = "check_url"
    /\ IF EnhancementFailed(frames[Frame(r)].enhanced_image_url)
       THEN reply' = [reply EXCEPT ![r] = Some(ErrorReply("Failed to process image", 500))]
       ELSE UNCHANGED reply
    /\ Goto(r, AfterEnhancement(frames[Frame(r)].enhanced_image_url))
    /\ UNCHANGED <<files, form, frames, enh_calls, gen_calls, enh_out, gen_prompt, gen_out>>

\* generate_product_description is entered, the prompt is built and
\* model.generate_content(prompt) is called; the request now waits
GenerateCall(r) ==
    /\ pc[r] = "generate"
    /\ gen_calls' = [gen_calls EXCEPT ![r] = @ + 1]
    /\ gen_prompt' = [gen_prompt EXCEPT ![r] =
          Prompt(frames[Frame(r)].product_name, frames[Frame(r)].keywords)]
    /\ Goto(r, "in_generate")
    /\ UNCHANGED <<files, form, frames, enh_calls, enh_out, gen_out, reply>>

\* the service answers: response is bound, or the call raised and the except
\* clause returns None to generate_content
GenerateReturn(r) ==
    /\ pc[r] = "in_generate"
    /\ \E resp \in HandlerResponses :
        /\ gen_out' = [gen_out EXCEPT ![r] = resp]
        /\ IF resp.kind = "raise"
           THEN /\ frames' = [frames EXCEPT ![Frame(r)].generated_text = None]
                /\ Goto(r, "check_text")
           ELSE /\ frames' = [frames EXCEPT ![Frame(r)].response = resp]
                /\ Goto(r, "gen_check")
    /\ UNCHANGED <<files, form, enh_calls, gen_calls, enh_out, gen_prompt, reply>>

\* the empty-response test, then full_text = response.text.strip()
G_CheckResponse(r) ==
    /\ pc[r] = "gen_check"
    /\ IF ResponseEmpty(frames[Frame(r)].response)
       THEN /\ frames' = [frames EXCEPT ![Frame(r)].generated_text = None]
            /\ Goto(r, "check_text")
       ELSE /\ frames' = [frames EXCEPT
                 ![Frame(r)].full_text = Strip(frames[Frame(r)].response.text)]
            /\ Goto(r, "split")
    /\ UNCHANGED <<files, form, enh_calls, gen_calls, enh_out, gen_prompt, gen_out, reply>>

\* parts = full_text.split('---') and the three defaults
G_Split(r) ==
    /\ pc[r] = "split"
    /\ frames' = [frames EXCEPT
          ![Frame(r)].parts = Split(frames[Frame(r)].full_text, DELIM),
          ![Frame(r)].description_text = DEFAULT_DESC,
          ![Frame(r)].social_post_text = DEFAULT_SOCIAL,
          ![Frame(r)].hashtags_list = <<>>,
          ![Frame(r)].i = 1]
    /\ Goto(r, "loop")
    /\ UNCHANGED <<files, form, enh_calls, gen_calls, enh_out, gen_prompt, gen_out, reply>>

\* one iteration of "for part in parts"
G_Segment(r) ==
    /\ pc[r] = "loop"
    /\ Len(frames[Frame(r)].parts) > 0
    /\ frames[Frame(r)].i <= Len(frames[Frame(r)].parts)
    /\ LET st == SegmentStep(FrameLocals(r), frames[Frame(r)].parts[frames[Frame(r)].i])
       IN  frames' = [frames EXCEPT ![Frame(r)].description_text = st.description,
                                    ![Frame(r)].social_post_text = st.social_post,
                                    ![Frame(r)].hashtags_list = st.hashtags,
                                    ![Frame(r)].i = @ + 1]
    /\ UNCHANGED <<pc, files, form, enh_calls, gen_calls, enh_out, gen_prompt, gen_out, reply>>

\* loop exhausted; the hashtag fallback
G_HashtagFallback(r) ==
    /\ pc[r] = "loop"
    /\ frames[Frame(r)].i > Len(frames[Frame(r)].parts)
    /\ SetFrameLocals(r, HashtagFallback(frames[Frame(r)].full_text, FrameLocals(r)))
    /\ Goto(r, "fb_desc")
    /\ UNCHANGED <<files, form, enh_calls, gen_calls, enh_out, gen_prompt, gen_out, reply>>

G_DescriptionFallback(r) ==
    /\ pc[r] = "fb_desc"
    /\ SetFrameLocals(r, DescriptionFallback(frames[Frame(r)].full_text, FrameLocals(r)))
    /\ Goto(r, "fb_social")
    /\ UNCHANGED <<files, form, enh_calls, gen_calls, enh_out, gen_prompt, gen_out, reply>>

G_SocialFallback(r) ==
    /\ pc[r] = "fb_social"
    /\ SetFrameLocals(r, SocialFallback(frames[Frame(r)].full_text, FrameLocals(r)))
    /\ Goto(r, "return")
    /\ UNCHANGED <<files, form, enh_calls, gen_calls, enh_out, gen_prompt, gen_out, reply>>

\* return {...}: generated_text is bound in generate_content
G_Return(r) ==
    /\ pc[r] = "return"
    /\ frames' = [frames EXCEPT ![Frame(r)].generated_text = Some(FrameLocals(r))]
    /\ Goto(r, "check_text")
    /\ UNCHANGED <<files, form, enh_calls, gen_calls, enh_out, gen_prompt, gen_out, reply>>

\* if not generated_text: return 500, else the combined response
Respond(r) ==
    /\ pc[r] = "check_text"
    /\ reply' = [reply EXCEPT ![r] =
          Some(ReplyAfterGeneration(frames[Frame(r)].enhanced_image_url[1],
                                    frames[Frame(r)].generated_text))]
    /\ Goto(r, "done")
    /\ UNCHANGED <<files, form, frames, enh_calls, gen_calls, enh_out, gen_prompt, gen_out>>

Next ==
    \/ \E r \in Requests : Receive(r) /\ UNCHANGED pvars
    \/ \E r \in Requests : CheckImage(r) /\ UNCHANGED pvars
    \/ \E r \in Requests : EnhanceCall(r) /\ UNCHANGED pvars
    \/ \E r \in Requests : EnhanceReturn(r) /\ UNCHANGED pvars
    \/ \E r \in Requests : CheckEnhanced(r) /\ UNCHANGED pvars
    \/ \E r \in Requests : GenerateCall(r) /\ UNCHANGED pvars
    \/ \E r \in Requests : GenerateReturn(r) /\ UNCHANGED pvars
    \/ \E r \in Requests : G_CheckResponse(r) /\ UNCHANGED pvars
    \/ \E r \in Requests : G_Split(r) /\ UNCHANGED pvars
    \/ \E r \in Requests : G_Segment(r) /\ UNCHANGED pvars
    \/ \E r \in Requests : G_HashtagFallback(r) /\ UNCHANGED pvars
    \/ \E r \in Requests : G_DescriptionFallback(r) /\ UNCHANGED pvars
    \/ \E r \in Requests : G_SocialFallback(r) /\ UNCHANGED pvars
    \/ \E r \in Requests : G_Return(r) /\ UNCHANGED pvars
    \/ \E r \in Requests : Respond(r) /\ UNCHANGED pvars

Spec == Init /\ [][Next]_vars

ParseSpec == Init /\ [][PNext]_vars

\* =================================================================== claims
Done(r) == pc[r] = "done"
Locals_(r) == frames[Frame(r)]

\* positions of generate_content, by what has happened so far
BeforeUpload == {"idle", "start", "enhance"}
InParser == {"gen_check", "split", "loop", "fb_desc", "fb_social", "return"}
AfterGenerateCall == {"in_generate", "check_text", "done"} \cup InParser

\* the request's own upload has returned (or raised)
UploadReturned(r) == enh_out[r] # UploadUnset

\* the request's own generation call has returned (or raised)
GenerationReturned(r) == gen_out[r] # Unset

\* the request's own enhancement call has returned a usable URL
EnhancedOk(r) ==
    UploadReturned(r) /\ ~EnhancementFailed(UploadAndEnhanceImage(enh_out[r]))

\* C1: when an image is supplied and upload_and_enhance_image returns None,
\* the generation client is never invoked in that request (neither before,
\* during nor after the upload), and the request ends with
\* 500 {"error": "Failed to process image"}.
C1_EnhanceNoneShortCircuits ==
    \A r \in Requests :
        /\ (~UploadReturned(r)) => gen_calls[r] = 0
        /\ (/\ "image" \in files[r]
            /\ UploadReturned(r)
            /\ UploadAndEnhanceImage(enh_out[r]) = None)
           => /\ gen_calls[r] = 0
              /\ pc[r] \in {"check_url", "done"}
              /\ Done(r) => reply[r] = Some(ErrorReply("Failed to process image", 500))

C1_Witness ==
    \E r \in Requests :
        /\ Done(r)
        /\ "image" \in files[r]
        /\ enh_calls[r] = 1
        /\ enh_out[r] = UploadRaised
        /\ reply[r] # None
        /\ reply[r][1].status = 500

\* C2: a request without an 'image' file field is answered 400
\* {"error": "No image file provided"} and starts neither external call,
\* whatever product_name and keywords are.
C2_MissingImageIs400 ==
    \A r \in Requests :
        (pc[r] # "idle" /\ "image" \notin files[r])
        => /\ enh_calls[r] = 0
           /\ gen_calls[r] = 0
           /\ pc[r] \in {"start", "done"}
           /\ Done(r) => reply[r] = Some(ErrorReply("No image file provided", 400))

C2_Witness ==
    \E r1 \in Requests, r2 \in Requests :
        /\ Done(r1)
        /\ files[r1] = {"photo"}
        /\ "product_name" \in DOMAIN form[r1]
        /\ reply[r1] # None
        /\ reply[r1][1].status = 400
        /\ pc[r2] = "in_upload"

\* C3: with the image enhanced, a generation call that raises or whose reply
\* has no text or an empty text makes generate_product_description return
\* None without parsing anything; the request ends with
\* 500 {"error": "Failed to generate content"} and the body carries no
\* enhanced_image_url.
C3_GenerationFailureIs500 ==
    \A r \in Requests :
        (/\ EnhancedOk(r)
         /\ GenerationReturned(r)
         /\ gen_out[r] \in {Raised, NoText, Text(<<>>)})
        => /\ pc[r] \in {"gen_check", "check_text", "done"}
           /\ pc[r] \in {"check_text", "done"} => Locals_(r).generated_text = None
           /\ Done(r) =>
                /\ reply[r] = Some(ErrorReply("Failed to generate content", 500))
                /\ "enhanced_image_url" \notin DOMAIN reply[r][1].body

C3_Witness ==
    \E r1 \in Requests, r2 \in Requests :
        /\ Done(r1) /\ EnhancedOk(r1) /\ gen_out[r1] = Text(<<>>)
        /\ Done(r2) /\ EnhancedOk(r2) /\ gen_out[r2] = Raised
        /\ reply[r1] # None /\ reply[r1][1].status = 500
        /\ reply[r2] # None /\ reply[r2][1].status = 500

\* C9: in every execution of generate_content each external client is
\* invoked at most once, whether its call succeeds or fails; the generation
\* call is started only after the enhancement call of the same request has
\* returned a URL, and a request is never inside both calls.
C9_SequentialNoRetry ==
    \A r \in Requests :
        /\ enh_calls[r] <= 1
        /\ gen_calls[r] <= 1
        /\ enh_calls[r] = 0 <=> pc[r] \in BeforeUpload \/ (Done(r) /\ ImageMissing(files[r]))
        /\ gen_calls[r] > 0 <=> pc[r] \in AfterGenerateCall /\ EnhancedOk(r)
        /\ gen_calls[r] > 0 =>
              /\ enh_calls[r] = 1
              /\ enh_out[r].kind = "ok"
              /\ enh_out[r].secure_url # ""
        /\ pc[r] = "in_upload" => ~UploadReturned(r) /\ gen_calls[r] = 0
        /\ pc[r] = "in_generate" => UploadReturned(r) /\ ~GenerationReturned(r)

C9_Witness ==
    \E r1 \in Requests, r2 \in Requests :
        /\ Done(r1) /\ enh_calls[r1] = 1 /\ gen_calls[r1] = 1 /\ gen_out[r1] = Raised
        /\ Done(r2) /\ enh_calls[r2] = 1 /\ gen_calls[r2] = 0 /\ enh_out[r2] = UploadRaised

\* what generate_content answers when run alone on these inputs and outcomes
SequentialReply(fs, upload, resp) ==
    IF ImageMissing(fs) THEN ErrorReply("No image file provided", 400)
    ELSE IF EnhancementFailed(UploadAndEnhanceImage(upload))
    THEN ErrorReply("Failed to process image", 500)
    ELSE ReplyAfterGeneration(upload.secure_url, GenerateProductDescription(resp))

\* C10: under any interleaving of the steps of concurrent requests (other
\* requests running while one waits inside an external call or is in the
\* middle of the parse), each response depends only on that request's own
\* inputs and on the outcomes of its own two external calls, and what a
\* request sends to the generation service is built from its own form.
C10_RequestsIndependent ==
    \A r \in Requests :
        /\ Done(r) => reply[r] = Some(SequentialReply(files[r], enh_out[r], gen_out[r]))
        /\ gen_calls[r] > 0 =>
             gen_prompt[r] = Prompt(FormGet(form[r], "product_name", "Handmade Product"),
                                    FormGet(form[r], "keywords",
                                            "unique, eco-friendly, made with love"))

C10_Witness ==
    \E r1 \in Requests, r2 \in Requests :
        /\ r1 # r2
        /\ Done(r1) /\ reply[r1] # None /\ reply[r1][1].status = 200
        /\ reply[r1][1].body.enhanced_image_url = IMAGE_URL
        /\ gen_out[r1] = GoodReply
        /\ reply[r1][1].body.generated_text.hashtags = <<TAG_X, TAG_Y>>
        /\ pc[r2] = "fb_desc"
        /\ enh_out[r2] = Uploaded(OTHER_URL)
        /\ gen_out[r2] = PlainTagsReply
        /\ frames[Frame(r2)].description_text = DEFAULT_DESC

\* ------------------------------------------------------ claims on the parser
PDone == p_pc = "done"
GotText == p_response.kind = "text"
RawText == p_response.text

HasBoldMarker(t) ==
    Contains(t, MARK_DESC) \/ Contains(t, MARK_SOCIAL) \/ Contains(t, MARK_TAGS)

\* the text after the last occurrence of p in t (p occurs in t)
AfterLast(t, p) ==
    LET hits == {i \in 1..(Len(t) - Len(p) + 1) : MatchAt(t, p, i)}
    IN  SubSeq(t, SetMax(hits) + Len(p), Len(t))

\* C4: for every non-empty reply text, however its delimiters and markers
\* are arranged, the parser does not raise and returns a record with the
\* three fields, and the request returns 200; when no marker is identified
\* (no bold marker, and no "Hashtags:" label for the fallback to pick up)
\* the three defaults are returned unchanged.
C4_MalformedNeverAnError ==
    (PDone /\ GotText /\ RawText # <<>>)
    => /\ p_generated # None
       /\ DOMAIN p_generated[1] = {"description", "social_post", "hashtags"}
       /\ p_reply = Some(SuccessReply(IMAGE_URL, p_generated[1]))
       /\ p_reply[1].status = 200
       /\ (~HasBoldMarker(RawText) /\ ~Contains(RawText, PLAIN_TAGS))
            => p_generated[1] = Defaults

C4_Witness ==
    /\ PDone
    /\ p_response = Text(MARK_TAGS \o DELIM \o MARK_DESC)
    /\ p_reply # None
    /\ p_reply[1].status = 200

\* C5: for every text made of three '---'-delimited sections introduced in
\* order by the three markers (bodies possibly empty or whitespace only),
\* description and social_post are the trimmed bodies of the first two
\* sections and hashtags the whitespace tokens of the third, nothing else.
C5_SectionsRecovered ==
    \A b1 \in Bodies, b2 \in Bodies, b3 \in Bodies :
        (PDone /\ p_response = Text(Sectioned(b1, b2, b3)))
        => p_generated = Some([description |-> Strip(b1),
                               social_post |-> Strip(b2),
                               hashtags |-> SplitWS(b3)])

\* C6: a text with no '---', none of the bold markers, but the plain
\* substring "Hashtags:" gets hashtags = the whitespace tokens of the trimmed
\* text after the last "Hashtags:", description and social_post keeping
\* their defaults.
C6_PlainHashtagsFallback ==
    (/\ PDone /\ GotText /\ RawText # <<>>
     /\ ~Contains(RawText, DELIM)
     /\ ~HasBoldMarker(RawText)
     /\ Contains(RawText, PLAIN_TAGS))
    => p_generated =
         Some([description |-> DEFAULT_DESC,
               social_post |-> DEFAULT_SOCIAL,
               hashtags |-> SplitWS(Strip(AfterLast(RawText, PLAIN_TAGS)))])

C6_Witness ==
    /\ PDone
    /\ p_response = Text(PLAIN_TAGS \o TAG_X \o TAB_TAG_Y)
    /\ p_generated # None
    /\ p_generated[1].hashtags = <<TAG_X, TAG_Y>>
    /\ p_generated[1].description = DEFAULT_DESC

\* C7 as stated: a fully empty reply text yields the three defaults and is
\* not treated as an error.
C7_EmptyTextGivesDefaults ==
    (PDone /\ p_response = Text(<<>>))
    => /\ p_generated = Some(Defaults)
       /\ p_reply = Some(SuccessReply(IMAGE_URL, Defaults))

\* C7 amended: a reply text that is non-empty but whitespace only (empty once
\* trimmed) yields the three defaults and status 200; a fully empty reply
\* text makes generate_product_description return None and the request end
\* with 500 {"error": "Failed to generate content"}.
C7_Amended ==
    /\ (PDone /\ GotText /\ RawText # <<>> /\ Strip(RawText) = <<>>)
       => /\ p_generated = Some(Defaults)
          /\ p_reply = Some(SuccessReply(IMAGE_URL, Defaults))
    /\ (PDone /\ p_response = Text(<<>>))
       => /\ p_generated = None
          /\ p_reply = Some(ErrorReply("Failed to generate content", 500))

C7_Witness ==
    /\ PDone
    /\ p_response = Text(SP \o TAB)
    /\ full_text = <<>>
    /\ p_generated = Some(Defaults)
    /\ p_reply # None
    /\ p_reply[1].status = 200

\* the for-loop is about to handle a segment holding more than one marker
MarkersIn(part) == {m \in {MARK_DESC, MARK_SOCIAL, MARK_TAGS} : Contains(part, m)}

AtMultiMarkerSegment ==
    /\ p_pc = "loop"
    /\ p_i <= Len(parts)
    /\ Cardinality(MarkersIn(parts[p_i])) > 1
    /\ p_i' = p_i + 1

\* C8 as stated: on a segment holding more than one marker, every field whose
\* marker occurs in it is assigned from that segment.
C8_EveryMarkerAssigned ==
    [][AtMultiMarkerSegment =>
         LET part == parts[p_i] IN
         /\ Contains(part, MARK_DESC)
              => description_text' = Strip(Remove(part, MARK_DESC))
         /\ Contains(part, MARK_SOCIAL)
              => social_post_text' = Strip(Remove(part, MARK_SOCIAL))
         /\ Contains(part, MARK_TAGS)
              => hashtags_list' = SplitWS(Strip(Remove(part, MARK_TAGS)))]_vars

\* C8 amended: the markers are tested in the fixed order Product Description,
\* Social Media Post, Hashtags, and on a segment holding more than one marker
\* only the field of the first marker in that order is assigned from the
\* segment; the per-segment pass leaves the other fields as they were.
C8_Amended ==
    [][AtMultiMarkerSegment =>
         LET part == parts[p_i] IN
         IF Contains(part, MARK_DESC)
         THEN /\ description_text' = Strip(Remove(part, MARK_DESC))
              /\ UNCHANGED <<social_post_text, hashtags_list>>
         ELSE /\ social_post_text' = Strip(Remove(part, MARK_SOCIAL))
              /\ UNCHANGED <<description_text, hashtags_list>>]_vars

C8_Witness ==
    /\ p_pc = "loop"
    /\ p_i = 2
    /\ parts = <<MARK_DESC \o WORD \o MARK_TAGS>>
    /\ description_text = WORD \o MARK_TAGS
    /\ hashtags_list = <<>>
    /\ social_post_text = DEFAULT_SOCIAL

====
